---- MODULE Spec2Model ----
(***************************************************************************)
(* bio2parquet: the FASTA and CSV readers (src/src/bio2parquet/fasta.py,   *)
(* src/src/bio2parquet/csv.py) and the fasta and csv commands              *)
(* (src/src/bio2parquet/cli.py) as a state machine.                        *)
(*                                                                         *)
(* Spec: a call of a reader on a plain file.  SpecStream: the same on      *)
(* plain and gzip files, damaged or not.  SpecCli: one invocation of a     *)
(* command.  SpecPar: two invocations running in parallel.  SpecChunk: the *)
(* dataset builders called with every chunk_size and max_workers.          *)
(*                                                                         *)
(* Text is a sequence of one-character strings; a file is the sequence of  *)
(* its lines, each line without its line terminator.  The empty file is    *)
(* << >>; the file "\n" is << << >> >>.                                    *)
(***************************************************************************)
EXTENDS Integers, Sequences, FiniteSets, TLC

VARIABLES
    filepath,   \* the path argument of the running call
    kind,       \* what the path names: "missing", "dir" or "file"
    content,    \* the lines of the file when kind = "file"
    op,         \* the function that was called, "none" before the call
    pc,         \* "idle", "created", "suspended", "done", "failed"
    pos,        \* index of the header line the FASTA iterator has read last
    yielded,    \* the records read_fasta_file has yielded so far
    result,     \* the value returned by an eager function
    error,      \* the exception that left the function, NoError if none
    handle,     \* "never", "open" or "closed": the file handle of the call
    stored,     \* how the bytes of the file are stored: "plain" or "gzip"
    damage,     \* the damage of a gzip file, NoDamage if none
    opens,      \* the number of open() / gzip.open() calls made so far
    params,     \* chunk_size and max_workers of a create_dataset_from_* call
    cli,        \* the invocations of the command line: a sequence of runs
    disk,       \* the output files written: path, writing run, rows
    hub         \* the push_to_hub calls made, in order

vars == <<filepath, kind, content, op, pc, pos, yielded, result, error, handle,
          stored, damage, opens, params, cli, disk, hub>>

-----------------------------------------------------------------------------
(* Bounds and input sets *)

MaxLines == 4
MaxChunk == 2

\* the arguments chunk_size and max_workers of a call; max_workers is << >>
\* for None, <<n>> for the integer n
NoParams == [chunk_size |-> 0, max_workers |-> << >>]

\* the values of max_workers: None, and integers from 0
MaxWorkersValues == { << >>, <<0>>, <<1>>, <<2>> }

\* a path is the sequence of the parts of its file name: stem, suffixes
Paths == { <<"in", ".fasta">>, <<"in", ".csv">> }

\* the same names with the gzip suffix
GzPaths == { <<"in", ".fasta", ".gz">>, <<"in", ".csv", ".gz">> }

\* Lines a FASTA input is drawn from: blank, headers (bare, with a secondary
\* delimiter, with a description after a space, indented), sequence lines
\* (two residues, to tell records apart, and one with a space inside).
FastaLines ==
    { << >>,
      <<">">>,
      <<">", "A", ";", "x">>,
      <<">", "B", " ", "y">>,
      <<" ", ">", "A">>,
      <<"A">>,
      <<"C">>,
      <<"A", " ", "C">> }

BoundedSeq(S, n) == UNION { [1..k -> S] : k \in 0..n }

FastaFiles == BoundedSeq(FastaLines, MaxLines)

\* Lines a CSV input is drawn from.  A word ("header", "s1", ...) is one unit
\* of text; "," is the delimiter.  Header rows with and without the column
\* "sequence", data rows of one, two and three fields, a data row whose
\* second cell is written in digits, and the blank line.
CsvLines ==
    { << >>,
      <<"header", ",", "sequence">>,
      <<"header", ",", "description">>,
      <<"s1", ",", "AAA">>,
      <<"s2", ",", "CCC">>,
      <<"s3", ",", "007">>,
      <<"s1">>,
      <<"s1", ",", "AAA", ",", "x">> }

CsvFiles == BoundedSeq(CsvLines, MaxLines)

-----------------------------------------------------------------------------
(* Text helpers: Python's str methods on the model's text *)

RECURSIVE LStrip(_)
LStrip(s) == IF s # << >> /\ s[1] = " " THEN LStrip(Tail(s)) ELSE s

RECURSIVE RStrip(_)
RStrip(s) == IF s # << >> /\ s[Len(s)] = " " THEN RStrip(SubSeq(s, 1, Len(s) - 1)) ELSE s

Strip(s) == LStrip(RStrip(s))

StartsWith(s, c) == s # << >> /\ s[1] = c

RemoveSpaces(s) == SelectSeq(s, LAMBDA c : c # " ")

RECURSIVE TakeWord(_)
TakeWord(s) == IF s = << >> \/ s[1] = " " THEN << >> ELSE <<s[1]>> \o TakeWord(Tail(s))

\* title.split(None, 1)[0], or "" when the title has no word
FirstWord(s) == TakeWord(LStrip(s))

RECURSIVE Concat(_)
Concat(ss) == IF ss = << >> THEN << >> ELSE Head(ss) \o Concat(Tail(ss))

-----------------------------------------------------------------------------
(* Errors *)

NoError == [type |-> "none", message |-> "", filepath |-> << >>, args |-> << >>]

\* errors.py: FileProcessingError(message, filepath); the message is an
\* f-string, args are the values interpolated into it.
FileProcessingError(msg, path, args) ==
    [type |-> "FileProcessingError", message |-> msg, filepath |-> path, args |-> args]

\* errors.py: InvalidFormatError(message, filepath)
InvalidFormatError(msg, path, args) ==
    [type |-> "InvalidFormatError", message |-> msg, filepath |-> path, args |-> args]

RaiseInvalidFormatError(msg, path) == InvalidFormatError(msg, path, << >>)

-----------------------------------------------------------------------------
(* fasta.py *)

\* _validate_file_exists: the error raised, NoError when the path is a file.
\* Path.exists() and Path.is_file() are both false of a missing path.
ValidateFileExists(k, path) ==
    IF k = "missing"
    THEN FileProcessingError("Input file does not exist: {filepath}", path, <<path>>)
    ELSE IF k # "file"
    THEN FileProcessingError("Input path is not a file: {filepath}", path, <<path>>)
    ELSE NoError

\* mutant of ValidateFastaContent: the empty-file check left out
ValidateFastaContentNoEmptyCheck(lines, path) ==
    IF lines # << >> /\ ~StartsWith(Strip(lines[1]), ">")
    THEN RaiseInvalidFormatError("Sequence data found before a header line", path)
    ELSE NoError

\* _validate_fasta_content: readline() is "" only at end of file
ValidateFastaContent(lines, path) ==
    IF lines = << >>
    THEN RaiseInvalidFormatError("File is empty: no FASTA records found.", path)
    ELSE IF ~StartsWith(Strip(lines[1]), ">")
    THEN RaiseInvalidFormatError("Sequence data found before a header line", path)
    ELSE NoError

\* Bio.SeqIO's FASTA iterator takes a line for a header when line[0] == ">"
IsHeaderLine(line) == StartsWith(line, ">")

\* index of the first header line at or after i, Len(lines) + 1 if none
RECURSIVE NextHeader(_, _)
NextHeader(lines, i) ==
    IF i > Len(lines) THEN Len(lines) + 1
    ELSE IF IsHeaderLine(lines[i]) THEN i
    ELSE NextHeader(lines, i + 1)

\* the lines between the header at h and the next header or the end of file
BodyLines(lines, h) == SubSeq(lines, h + 1, NextHeader(lines, h + 1) - 1)

\* mutant of JoinSequence: only the first line after the header is kept
JoinSequenceFirstLineOnly(body) ==
    IF body = << >> THEN << >> ELSE RemoveSpaces(RStrip(body[1]))

\* the sequence the iterator builds: lines stripped on the right, joined,
\* blanks removed
JoinSequence(body) ==
    RemoveSpaces(Concat([i \in 1..Len(body) |-> RStrip(body[i])]))

\* the SeqRecord of the header at line h: description, id (first word), seq
SeqRecord(lines, h) ==
    LET title == RStrip(Tail(lines[h]))
    IN  [description |-> title,
         id          |-> FirstWord(title),
         seq         |-> JoinSequence(BodyLines(lines, h))]

\* mutant of ValidateRecord: the id of the record is not checked
ValidateRecordSeqOnly(record, path) ==
    IF record.seq = << >>
    THEN RaiseInvalidFormatError("Sequence missing for header.", path)
    ELSE NoError

\* _validate_record
ValidateRecord(record, path) ==
    IF record.seq = << >>
    THEN RaiseInvalidFormatError("Sequence missing for header.", path)
    ELSE IF record.id = << >>
    THEN RaiseInvalidFormatError("Header missing for sequence.", path)
    ELSE NoError

\* the dictionary read_fasta_file yields for a record
YieldedDict(record) == [header |-> record.id, sequence |-> record.seq]

\* mutant of ParseStep: a record that fails the validation ends the
\* iteration without an error
ParseStepStopsQuietly(lines, h, path) ==
    IF h > Len(lines) \/ ValidateRecord(SeqRecord(lines, h), path) # NoError
    THEN [outcome |-> "stop", pos |-> h, rec |-> << >>, error |-> NoError]
    ELSE [outcome |-> "yield", pos |-> NextHeader(lines, h + 1),
          rec |-> YieldedDict(SeqRecord(lines, h)), error |-> NoError]

\* One resumption of the parse loop of read_fasta_file with the iterator at
\* header index h: the next yield, the end of the iteration or the error.
ParseStep(lines, h, path) ==
    IF h > Len(lines)
    THEN [outcome |-> "stop", pos |-> h, rec |-> << >>, error |-> NoError]
    ELSE LET record == SeqRecord(lines, h)
             err    == ValidateRecord(record, path)
         IN  IF err # NoError
             THEN [outcome |-> "raise", pos |-> h, rec |-> << >>, error |-> err]
             ELSE [outcome |-> "yield", pos |-> NextHeader(lines, h + 1),
                   rec |-> YieldedDict(record), error |-> NoError]

\* filepath.name.endswith(".gz")
IsGz(path) == path[Len(path)] = ".gz"

\* A gzip file can be damaged: cut short ("truncated"), with a corrupt
\* deflate stream ("data") or with a wrong checksum in its trailer ("crc").
\* `at` is the number of lines that can still be read before the damage.
NoDamage == [kind |-> "none", at |-> 0]

\* The exception the stream of the file raises, and after how many lines:
\* gzip.open on bytes that are not gzip raises BadGzipFile on the first read
\* (a file of no bytes reads as an empty stream); a cut stream raises
\* EOFError, corrupt data zlib.error, and a wrong checksum BadGzipFile once
\* the last line has been read; open() on gzip bytes raises
\* UnicodeDecodeError on the first read.
NoFault == [kind |-> "none", at |-> 0]

StreamFault(path, st, dmg, lines) ==
    IF IsGz(path)
    THEN IF st = "plain"
         THEN IF lines = << >> THEN NoFault ELSE [kind |-> "BadGzipFile", at |-> 0]
         ELSE CASE dmg.kind = "none"      -> NoFault
                [] dmg.kind = "truncated" -> [kind |-> "EOFError", at |-> dmg.at]
                [] dmg.kind = "data"      -> [kind |-> "zlib.error", at |-> dmg.at]
                [] dmg.kind = "crc"       -> [kind |-> "BadGzipFile", at |-> Len(lines)]
    ELSE IF st = "gzip" THEN [kind |-> "UnicodeDecodeError", at |-> 0] ELSE NoFault

\* reading line `needed` of the stream (Len + 1: its end) raises the fault
FaultHits(fault, needed) == fault.kind # "none" /\ fault.at < needed

\* mutant of WrapReadError: no except clause, the exception of the stream
\* leaves the reader as it is
WrapReadErrorUncaught(fault, path) ==
    [type |-> fault.kind, message |-> "", filepath |-> << >>, args |-> << >>]

\* the except clauses of the readers for an exception of the stream
WrapReadError(fault, path) ==
    IF fault.kind = "BadGzipFile"
    THEN FileProcessingError("File is not a valid GZIP file: {filepath}", path, <<path>>)
    ELSE FileProcessingError("Error reading file {filepath}: {e}", path, <<path, fault.kind>>)

\* One resumption of read_fasta_file on a stream: the iterator reads up to
\* the next header line, or to the end, before it hands out the record.
ReadStep(lines, h, path, fault) ==
    IF FaultHits(fault, IF h > Len(lines) THEN h ELSE NextHeader(lines, h + 1))
    THEN [outcome |-> "raise", pos |-> h, rec |-> << >>, error |-> WrapReadError(fault, path)]
    ELSE ParseStep(lines, h, path)

\* list(read_fasta_file(path)) on an existing file: every record up to the
\* end of the iteration or the first error
RECURSIVE ParseAll(_, _, _, _, _)

\* the consumer after one resumption s: on to the next, or the end
ParseOn(lines, path, fault, acc, s) ==
    IF s.outcome = "yield" THEN ParseAll(lines, s.pos, path, fault, Append(acc, s.rec))
    ELSE [records |-> acc, error |-> s.error]

ParseAll(lines, h, path, fault, acc) ==
    ParseOn(lines, path, fault, acc, ReadStep(lines, h, path, fault))

\* what leaves read_fasta_file: the error of the first check that fails (the
\* path, the first read, the first line), or what the loop gives
ReadOutcome(e1, eRead, e2, parsed) ==
    IF e1 # NoError THEN [records |-> << >>, error |-> e1, opened |-> FALSE]
    ELSE IF eRead # NoError THEN [records |-> << >>, error |-> eRead, opened |-> TRUE]
    ELSE IF e2 # NoError THEN [records |-> << >>, error |-> e2, opened |-> TRUE]
    ELSE [records |-> parsed.records, error |-> parsed.error, opened |-> TRUE]

\* the error of reading line `needed` of the stream, NoError if it is read
ReadError(fault, needed, path) ==
    IF FaultHits(fault, needed) THEN WrapReadError(fault, path) ELSE NoError

\* read_fasta_file run to its end by a consumer, on a stream with a fault
ReadFastaStream(k, lines, path, fault) ==
    ReadOutcome(ValidateFileExists(k, path),
                ReadError(fault, 1, path),
                ValidateFastaContent(lines, path),
                ParseAll(lines, NextHeader(lines, 1), path, fault, << >>))

\* read_fasta_file run to its end by a consumer
ReadFastaAll(k, lines, path) == ReadFastaStream(k, lines, path, NoFault)

\* mutant of Chunks: the records left over after the last full chunk are
\* dropped
ChunksWithoutRemainder(records, chunk_size) ==
    [c \in 1..(Len(records) \div chunk_size) |->
        SubSeq(records, (c - 1) * chunk_size + 1, c * chunk_size)]

\* the chunks of create_dataset_from_fasta: records[i : i + chunk_size]
Chunks(records, chunk_size) ==
    [c \in 1..((Len(records) + chunk_size - 1) \div chunk_size) |->
        SubSeq(records, (c - 1) * chunk_size + 1,
               IF c * chunk_size < Len(records) THEN c * chunk_size ELSE Len(records))]

\* _process_chunk
ProcessChunk(chunk) == chunk

\* executor.map(_process_chunk, chunks), then the flattening comprehension
ProcessChunks(records, chunk_size) ==
    LET chunks == Chunks(records, chunk_size)
    IN  Concat([c \in 1..Len(chunks) |-> ProcessChunk(chunks[c])])

\* a datasets.Dataset: its column names and its rows
Dataset(columns, rows) == [columns |-> columns, rows |-> rows]

NoResult == [columns |-> << >>, rows |-> <<"no result">>]

FastaColumns == <<"header", "sequence">>

-----------------------------------------------------------------------------
(* csv.py *)

\* mutant of CsvValidateFileExists: is_file() tested before exists()
CsvValidateFileExistsSwapped(k, path) ==
    IF k # "file"
    THEN FileProcessingError("Input path is not a file: {filepath}", path, <<path>>)
    ELSE IF k = "missing"
    THEN FileProcessingError("Input file does not exist: {filepath}", path, <<path>>)
    ELSE NoError

\* csv.py has its own copy of _validate_file_exists
CsvValidateFileExists(k, path) ==
    IF k = "missing"
    THEN FileProcessingError("Input file does not exist: {filepath}", path, <<path>>)
    ELSE IF k # "file"
    THEN FileProcessingError("Input path is not a file: {filepath}", path, <<path>>)
    ELSE NoError

Contains(line, c) == \E i \in 1..Len(line) : line[i] = c

\* _validate_csv_content
ValidateCsvContent(lines, path) ==
    IF lines = << >>
    THEN RaiseInvalidFormatError("File is empty: no CSV records found.", path)
    ELSE IF ~Contains(lines[1], ",") /\ ~Contains(lines[1], ";") /\ ~Contains(lines[1], "\t")
    THEN RaiseInvalidFormatError(
             "File does not appear to be in CSV format (no valid delimiter found)", path)
    ELSE NoError

\* the fields of a line: the text between the delimiters
RECURSIVE SplitFields(_, _)
SplitFields(line, cur) ==
    IF line = << >> THEN <<cur>>
    ELSE IF Head(line) = "," THEN <<cur>> \o SplitFields(Tail(line), << >>)
    ELSE SplitFields(Tail(line), Append(cur, Head(line)))

Fields(line) == SplitFields(line, << >>)

\* a cell of a DataFrame: a string, or the float NaN of a missing field
StrValue(text) == [type |-> "str", text |-> text]
NaN == [type |-> "float", text |-> <<"nan">>]

CellValue(field) == IF field = << >> THEN NaN ELSE StrValue(field)

\* the cells pandas parses as integers, and str() of the parsed number
IsIntegerText(field) == field = <<"007">>
IntValue(field) == [type |-> "int", text |-> <<"7">>]
FloatValue(field) == [type |-> "float", text |-> <<"7.0">>]

\* the dtype pandas infers for one column from all of its cells: int64 when
\* every cell is an integer, float64 when the others are missing, object
\* (the strings as written) otherwise
InferColumn(cells) ==
    LET present == { i \in 1..Len(cells) : cells[i] # NaN }
        allInt  == \A i \in present : IsIntegerText(cells[i].text)
    IN  IF present = {} \/ ~allInt THEN cells
        ELSE IF present = 1..Len(cells)
        THEN [i \in 1..Len(cells) |-> IntValue(cells[i].text)]
        ELSE [i \in 1..Len(cells) |->
                 IF i \in present THEN FloatValue(cells[i].text) ELSE NaN]

\* pandas skips the lines that hold nothing but white space
IsBlankLine(line) == Strip(line) = << >>

\* pd.read_csv(handle) with the default options.  The first non-blank line
\* names the columns.  The first data row sets the width of the table: when
\* it has more fields than the header the leading fields become the index
\* and are no column.  A later row with more fields than the table is a
\* ParserError; a row with fewer is filled with NaN.  Each column then gets
\* the dtype inferred from its cells.
PandasReadCsv(lines) ==
    LET rows    == SelectSeq(lines, LAMBDA l : ~IsBlankLine(l))
        header  == IF rows = << >> THEN << >> ELSE Fields(rows[1])
        data    == IF rows = << >> THEN << >> ELSE [i \in 1..(Len(rows) - 1) |-> Fields(rows[i + 1])]
        ncols   == Len(header)
        width   == IF data # << >> /\ Len(data[1]) > ncols THEN Len(data[1]) ELSE ncols
        lead    == width - ncols
        tooWide == { i \in 2..Len(data) : Len(data[i]) > width }
        Cell(i, c) == IF lead + c <= Len(data[i]) THEN CellValue(data[i][lead + c]) ELSE NaN
        Column(c)  == InferColumn([i \in 1..Len(data) |-> Cell(i, c)])
        Row(i)     == [c \in 1..ncols |-> Column(c)[i]]
    IN  IF rows = << >>
        THEN [raised |-> "EmptyDataError", row |-> 0, columns |-> << >>, rows |-> << >>]
        ELSE IF tooWide # {}
        THEN [raised |-> "ParserError",
              row |-> CHOOSE i \in tooWide : \A j \in tooWide : i <= j,
              columns |-> << >>, rows |-> << >>]
        ELSE [raised |-> "none", row |-> 0, columns |-> header,
              rows |-> [i \in 1..Len(data) |-> Row(i)]]

\* read_csv_file: the DataFrame returned or the error raised
CsvReadOutcome(e1, eRead, e2, eReadAll, df, path) ==
    IF e1 # NoError THEN [df |-> NoResult, error |-> e1, opened |-> FALSE]
    ELSE IF eRead # NoError THEN [df |-> NoResult, error |-> eRead, opened |-> TRUE]
    ELSE IF e2 # NoError THEN [df |-> NoResult, error |-> e2, opened |-> TRUE]
    ELSE IF eReadAll # NoError THEN [df |-> NoResult, error |-> eReadAll, opened |-> TRUE]
    ELSE IF df.raised # "none"
    THEN [df |-> NoResult, opened |-> TRUE,
          error |-> FileProcessingError("Error reading file {filepath}: {e}", path,
                                        <<path, df.raised, df.row>>)]
    ELSE [df |-> [columns |-> df.columns, rows |-> df.rows], error |-> NoError,
          opened |-> TRUE]

ReadCsvFile(k, lines, path, fault) ==
    CsvReadOutcome(CsvValidateFileExists(k, path),
                   ReadError(fault, 1, path),
                   ValidateCsvContent(lines, path),
                   ReadError(fault, Len(lines) + 1, path),
                   PandasReadCsv(lines), path)

\* Value("string").encode_example: str(value)
EncodeString(value) == value.text

\* df.to_dict("records"), the chunks, Dataset.from_generator with string features
CsvDataset(df, chunk_size) ==
    IF df.rows = << >> \/ df.columns = << >>
    THEN Dataset(df.columns, << >>)
    ELSE LET records == ProcessChunks(df.rows, chunk_size)
         IN  Dataset(df.columns,
                     [i \in 1..Len(records) |->
                         [c \in 1..Len(df.columns) |-> EncodeString(records[i][c])]])

-----------------------------------------------------------------------------
(* Initial states: a path that is missing, a directory, or a file *)

Init ==
    /\ filepath \in Paths
    /\ \/ kind \in {"missing", "dir"} /\ content = << >>
       \/ kind = "file" /\ content \in FastaFiles \cup CsvFiles
    /\ op = "none"
    /\ pc = "idle"
    /\ pos = 0
    /\ yielded = << >>
    /\ result = NoResult
    /\ error = NoError
    /\ handle = "never"
    /\ stored = "plain"
    /\ damage = NoDamage
    /\ opens = 0
    /\ params = NoParams
    /\ cli = << >>
    /\ disk = {}
    /\ hub = << >>

-----------------------------------------------------------------------------
(* Actions *)

\* the stream the call reads
Fault == StreamFault(filepath, stored, damage, content)

\* mutant of HandleAfter: the handle is released on normal completion only
HandleAfterNoRelease(outcome) == IF outcome = "stop" THEN "closed" ELSE "open"

\* the with statement: the handle stays open across a yield and is released
\* when the block is left, by its end or by an exception
HandleAfter(outcome) == IF outcome = "yield" THEN "open" ELSE "closed"

\* read_fasta_file(filepath): a generator function, the call runs no code
CallReadFastaFile ==
    /\ op = "none"
    /\ op' = "read_fasta_file"
    /\ pc' = "created"
    /\ UNCHANGED <<filepath, kind, content, pos, yielded, result, error, handle,
                   stored, damage, opens, params,
                   cli, disk, hub>>

\* the generator after a resumption s: suspended at the yield, finished, or
\* left by an exception
Resumed(s) ==
    /\ pos' = s.pos
    /\ error' = s.error
    /\ pc' = CASE s.outcome = "yield" -> "suspended"
               [] s.outcome = "stop"  -> "done"
               [] OTHER               -> "failed"
    /\ yielded' = IF s.outcome = "yield" THEN Append(yielded, s.rec) ELSE yielded
    /\ handle' = HandleAfter(s.outcome)

\* a check made before the loop raises e
Raised(e) == [outcome |-> "raise", pos |-> pos, rec |-> << >>, error |-> e]

\* the first resumption: the error of the first read or of the first line,
\* or the first step of the loop
FirstStep(eRead, e2, s) ==
    IF eRead # NoError THEN Raised(eRead) ELSE IF e2 # NoError THEN Raised(e2) ELSE s

\* the first next() of the generator: the checks, the open, the first record
FirstNext ==
    /\ op = "read_fasta_file" /\ pc = "created"
    /\ IF ValidateFileExists(kind, filepath) # NoError
       THEN /\ pc' = "failed" /\ error' = ValidateFileExists(kind, filepath)
            /\ UNCHANGED <<pos, yielded, handle, opens>>
       ELSE /\ opens' = opens + 1
            /\ Resumed(FirstStep(ReadError(Fault, 1, filepath),
                                 ValidateFastaContent(content, filepath),
                                 ReadStep(content, NextHeader(content, 1), filepath, Fault)))
    /\ UNCHANGED <<filepath, kind, content, op, result, stored, damage, params,
                   cli, disk, hub>>

\* a later next(): resumes after the yield
NextRecord ==
    /\ op = "read_fasta_file" /\ pc = "suspended"
    /\ Resumed(ReadStep(content, pos, filepath, Fault))
    /\ UNCHANGED <<filepath, kind, content, op, result, stored, damage, opens, params,
                   cli, disk, hub>>

\* the consumer drops the suspended generator: close() raises GeneratorExit
\* at the yield and the with block is left
CloseGenerator ==
    /\ op = "read_fasta_file" /\ pc = "suspended"
    /\ pc' = "closed"
    /\ handle' = HandleAfter("GeneratorExit")
    /\ UNCHANGED <<filepath, kind, content, op, pos, yielded, result, error,
                   stored, damage, opens, params,
                   cli, disk, hub>>

\* ProcessPoolExecutor(max_workers=max_workers): the ValueError of the
\* constructor for a number of workers that is not positive
ProcessPoolExecutor(max_workers) ==
    IF max_workers # << >> /\ max_workers[1] <= 0
    THEN [type |-> "ValueError", message |-> "max_workers must be greater than 0",
          filepath |-> << >>, args |-> << >>]
    ELSE NoError

\* the table of the records read, or the error of the read or of the pool
FastaDatasetOutcome(e1, r, chunk_size, ePool) ==
    IF e1 # NoError THEN [error |-> e1, dataset |-> NoResult, opened |-> FALSE]
    ELSE IF r.error # NoError
    THEN [error |-> r.error, dataset |-> NoResult, opened |-> r.opened]
    ELSE IF r.records = << >>
    THEN [error |-> NoError, opened |-> TRUE, dataset |-> Dataset(FastaColumns, << >>)]
    ELSE IF ePool # NoError
    THEN [error |-> ePool, dataset |-> NoResult, opened |-> TRUE]
    ELSE [error |-> NoError, opened |-> TRUE,
          dataset |-> Dataset(FastaColumns, ProcessChunks(r.records, chunk_size))]

\* create_dataset_from_fasta(filepath, chunk_size, max_workers): the dataset
\* or the error
create_dataset_from_fasta(k, lines, path, fault, chunk_size, max_workers) ==
    FastaDatasetOutcome(ValidateFileExists(k, path),
                        ReadFastaStream(k, lines, path, fault), chunk_size,
                        ProcessPoolExecutor(max_workers))

\* df.empty: no row or no column
Empty(df) == df.rows = << >> \/ df.columns = << >>

\* the table of the frame read, or the error of the read or of the pool
CsvDatasetOutcome(e1, r, chunk_size, ePool) ==
    IF e1 # NoError THEN [error |-> e1, dataset |-> NoResult, opened |-> FALSE]
    ELSE IF r.error # NoError
    THEN [error |-> r.error, dataset |-> NoResult, opened |-> r.opened]
    ELSE IF ~Empty(r.df) /\ ePool # NoError
    THEN [error |-> ePool, dataset |-> NoResult, opened |-> TRUE]
    ELSE [error |-> NoError, opened |-> TRUE, dataset |-> CsvDataset(r.df, chunk_size)]

\* create_dataset_from_csv(filepath, chunk_size, max_workers): the dataset or
\* the error
create_dataset_from_csv(k, lines, path, fault, chunk_size, max_workers) ==
    CsvDatasetOutcome(CsvValidateFileExists(k, path),
                      ReadCsvFile(k, lines, path, fault), chunk_size,
                      ProcessPoolExecutor(max_workers))

\* an eager function returns the value d.value or raises d.error; the handle
\* it opened has been released
Returns(name, d) ==
    /\ op' = name
    /\ error' = d.error
    /\ pc' = IF d.error # NoError THEN "failed" ELSE "done"
    /\ result' = IF d.error # NoError THEN result ELSE d.value
    /\ handle' = IF ~d.opened THEN handle
                 ELSE HandleAfter(IF d.error # NoError THEN "raise" ELSE "return")
    /\ opens' = IF d.opened THEN opens + 1 ELSE opens

Returned(error_, value, opened) == [error |-> error_, value |-> value, opened |-> opened]

DatasetReturned(d) == Returned(d.error, d.dataset, d.opened)
FrameReturned(r) == Returned(r.error, r.df, r.opened)

\* a call of create_dataset_from_fasta with max_workers among `workers`
CreateDatasetFromFasta(workers) ==
    /\ op = "none"
    /\ \E chunk_size \in 1..MaxChunk, max_workers \in workers :
          /\ params' = [chunk_size |-> chunk_size, max_workers |-> max_workers]
          /\ Returns("create_dataset_from_fasta",
                     DatasetReturned(create_dataset_from_fasta(kind, content, filepath, Fault,
                                                               chunk_size, max_workers)))
    /\ UNCHANGED <<filepath, kind, content, pos, yielded, stored, damage, cli, disk, hub>>

\* read_csv_file(filepath)
CallReadCsvFile ==
    /\ op = "none"
    /\ Returns("read_csv_file", FrameReturned(ReadCsvFile(kind, content, filepath, Fault)))
    /\ UNCHANGED <<filepath, kind, content, pos, yielded, stored, damage, params,
                   cli, disk, hub>>

\* a call of create_dataset_from_csv with max_workers among `workers`
CreateDatasetFromCsv(workers) ==
    /\ op = "none"
    /\ \E chunk_size \in 1..MaxChunk, max_workers \in workers :
          /\ params' = [chunk_size |-> chunk_size, max_workers |-> max_workers]
          /\ Returns("create_dataset_from_csv",
                     DatasetReturned(create_dataset_from_csv(kind, content, filepath, Fault,
                                                             chunk_size, max_workers)))
    /\ UNCHANGED <<filepath, kind, content, pos, yielded, stored, damage, cli, disk, hub>>

Next ==
    \/ CallReadFastaFile
    \/ FirstNext
    \/ NextRecord
    \/ CloseGenerator
    \/ CreateDatasetFromFasta({<< >>})
    \/ CallReadCsvFile
    \/ CreateDatasetFromCsv({<< >>})

Spec == Init /\ [][Next]_vars

-----------------------------------------------------------------------------
(* The readers on plain and gzip files, damaged or not *)

MaxStreamLines == 3

\* lines of the files read as streams: a header, a sequence line, a CSV
\* header row and a data row, and the blank line
StreamLines ==
    { << >>,
      <<">", "A", ";", "x">>,
      <<"A">>,
      <<"header", ",", "sequence">>,
      <<"s1", ",", "AAA">> }

StreamFiles == BoundedSeq(StreamLines, MaxStreamLines)

Damages(lines) ==
    {NoDamage} \cup {[kind |-> "crc", at |-> Len(lines)]}
               \cup {[kind |-> k, at |-> a] : k \in {"truncated", "data"}, a \in 0..Len(lines)}

InitStream ==
    /\ filepath \in Paths \cup GzPaths
    /\ \/ /\ kind \in {"missing", "dir"} /\ content = << >>
          /\ stored = "plain" /\ damage = NoDamage
       \/ /\ kind = "file" /\ content \in StreamFiles
          /\ \/ stored = "plain" /\ damage = NoDamage
             \/ stored = "gzip" /\ damage \in Damages(content)
    /\ op = "none"
    /\ pc = "idle"
    /\ pos = 0
    /\ yielded = << >>
    /\ result = NoResult
    /\ error = NoError
    /\ handle = "never"
    /\ opens = 0
    /\ params = NoParams
    /\ cli = << >>
    /\ disk = {}
    /\ hub = << >>

SpecStream == InitStream /\ [][Next]_vars

-----------------------------------------------------------------------------
(* The dataset builders called with every chunk_size and max_workers *)

\* lines of the files the builders are called on: a header, a sequence
\* line, a CSV header row and a data row
ChunkLines ==
    { <<">", "A", ";", "x">>,
      <<"A">>,
      <<"header", ",", "sequence">>,
      <<"s1", ",", "AAA">> }

ChunkFiles == BoundedSeq(ChunkLines, MaxLines)

InitChunk ==
    /\ filepath \in Paths
    /\ kind = "file"
    /\ content \in ChunkFiles
    /\ op = "none"
    /\ pc = "idle"
    /\ pos = 0
    /\ yielded = << >>
    /\ result = NoResult
    /\ error = NoError
    /\ handle = "never"
    /\ stored = "plain"
    /\ damage = NoDamage
    /\ opens = 0
    /\ params = NoParams
    /\ cli = << >>
    /\ disk = {}
    /\ hub = << >>

NextChunk ==
    \/ CreateDatasetFromFasta(MaxWorkersValues)
    \/ CreateDatasetFromCsv(MaxWorkersValues)

SpecChunk == InitChunk /\ [][NextChunk]_vars

-----------------------------------------------------------------------------
(* cli.py: the fasta and csv commands *)

\* the default chunk_size of create_dataset_from_fasta / create_dataset_from_csv
DefaultChunkSize == 1000

\* A path of the command line is a directory followed by the parts of the
\* file name; << >> stands for an option that was not given.
Name(path) == Tail(path)

\* filepath.name.endswith(ext)
EndsWith(path, ext) ==
    /\ Len(Name(path)) >= Len(ext)
    /\ SubSeq(path, Len(path) - Len(ext) + 1, Len(path)) = ext

\* valid_extensions of _validate_fasta_extension
FastaExtensions ==
    { <<".fasta">>, <<".fa">>, <<".fna">>,
      <<".fasta", ".gz">>, <<".fa", ".gz">>, <<".fna", ".gz">> }

\* _validate_fasta_extension / _validate_csv_extension: TRUE when accepted
ValidateFastaExtension(path) == \E ext \in FastaExtensions : EndsWith(path, ext)
ValidateCsvExtension(path) == EndsWith(path, <<".csv">>)

ValidateExtension(command, path) ==
    IF command = "fasta" THEN ValidateFastaExtension(path) ELSE ValidateCsvExtension(path)

\* mutant of Stem: every suffix is dropped
StemWithoutSuffixes(path) == <<Name(path)[1]>>

\* Path.stem: the file name without its last suffix
Stem(path) ==
    IF Len(Name(path)) >= 2 THEN SubSeq(Name(path), 1, Len(Name(path)) - 1) ELSE Name(path)

\* _get_output_path
GetOutputPath(input_file, output_file) ==
    IF output_file = << >>
    THEN <<"cwd/">> \o Stem(input_file) \o <<".parquet">>
    ELSE output_file

\* _handle_empty_dataset raises a plain Bio2ParquetError
EmptyDatasetError ==
    [type |-> "Bio2ParquetError",
     message |-> "The input file seems to be empty or could not be parsed correctly, resulting in an empty dataset.",
     filepath |-> << >>, args |-> << >>]

\* the option --hf-token with its envvar HF_TOKEN
ResolveToken(flag, env) == IF flag # "none" THEN flag ELSE env

\* mutant of Falsy: only None counts, the empty string passes
FalsyNoneOnly(text) == text = "none"

\* `if not token` / `if hf_repo_id`
Falsy(text) == text \in {"none", ""}

\* mutant of HandleException: a ClickException leaves with exit code 1
HandleExceptionExitOne(exc) ==
    CASE exc \in {"Bio2ParquetError", "RuntimeError"} ->
             [exit_code |-> 1, shown |-> "print_error"]
      [] exc \in {"ClickException", "UsageError"} -> [exit_code |-> 1, shown |-> "show"]
      [] exc = "SystemExit"     -> [exit_code |-> 1, shown |-> "secho"]
      [] OTHER                  -> [exit_code |-> 1, shown |-> "traceback"]

\* How an exception leaves the command: the except clauses of the command
\* function (Bio2ParquetError, ClickException, RuntimeError), click's own
\* handling of a usage error, sys.exit(1) of _handle_hf_upload, and the
\* interpreter for an exception nothing catches.
HandleException(exc) ==
    CASE exc \in {"Bio2ParquetError", "RuntimeError"} ->
             [exit_code |-> 1, shown |-> "print_error"]
      [] exc \in {"ClickException", "UsageError"} -> [exit_code |-> 2, shown |-> "show"]
      [] exc = "SystemExit"     -> [exit_code |-> 1, shown |-> "secho"]
      [] OTHER                  -> [exit_code |-> 1, shown |-> "traceback"]

\* exceptions Dataset.to_parquet and Dataset.push_to_hub can raise
WriteFaults == {"none", "OSError", "RuntimeError"}
PushFaults == {"none", "HfHubHTTPError", "RuntimeError"}

\* an invocation before it starts
NewRun(command, input, k, lines, output_file, repo, flag, env) ==
    [command |-> command, input |-> input, kind |-> k, content |-> lines,
     output_file |-> output_file, hf_repo_id |-> repo,
     hf_token |-> ResolveToken(flag, env),
     pc |-> "start", exit_code |-> -1, shown |-> "none", raised |-> "none",
     error |-> NoError, dataset |-> NoResult, output_path |-> << >>]

\* the run leaves with an exception
Exit(c, exc, err) ==
    [c EXCEPT !.pc = "exited", !.raised = exc, !.error = err,
              !.exit_code = HandleException(exc).exit_code,
              !.shown = HandleException(exc).shown]

\* the -o option names a directory
OutDir == <<"outdir/">>

readerVars == <<filepath, kind, content, op, pc, pos, yielded, result, error, handle,
                stored, damage, opens, params>>

\* click converts the parameters: click.Path(exists=True, dir_okay=False)
\* for the argument, click.Path(dir_okay=False) for --output-file
ClickParse(r) ==
    /\ cli[r].pc = "start"
    /\ cli' = [cli EXCEPT ![r] =
                 IF cli[r].kind # "file" \/ cli[r].output_file = OutDir
                 THEN Exit(cli[r], "UsageError", NoError)
                 ELSE [cli[r] EXCEPT !.pc = "handler"]]
    /\ UNCHANGED <<readerVars, disk, hub>>

\* create_dataset_from_fasta(fasta_file) / create_dataset_from_csv(csv_file)
CreateDataset(c) ==
    IF c.command = "fasta"
    THEN create_dataset_from_fasta(c.kind, c.content, c.input, NoFault, DefaultChunkSize,
                                   << >>)
    ELSE create_dataset_from_csv(c.kind, c.content, c.input, NoFault, DefaultChunkSize,
                                 << >>)

\* mutant of Converted: no check for an empty dataset
ConvertedWithoutEmptyCheck(c, d) ==
    IF ~ValidateExtension(c.command, c.input)
    THEN Exit(c, "ClickException", NoError)
    ELSE IF d.error # NoError
    THEN Exit(c, "Bio2ParquetError", d.error)
    ELSE [c EXCEPT !.pc = "converted", !.dataset = d.dataset]

\* the run after the extension check, the conversion d and the check for
\* an empty dataset
Converted(c, d) ==
    IF ~ValidateExtension(c.command, c.input)
    THEN Exit(c, "ClickException", NoError)
    ELSE IF d.error # NoError
    THEN Exit(c, "Bio2ParquetError", d.error)
    ELSE IF Len(d.dataset.rows) = 0
    THEN Exit(c, "Bio2ParquetError", EmptyDatasetError)
    ELSE [c EXCEPT !.pc = "converted", !.dataset = d.dataset]

\* _process_fasta_file / _process_csv_file up to _handle_empty_dataset
Convert(r) ==
    /\ cli[r].pc = "handler"
    /\ cli' = [cli EXCEPT ![r] = Converted(cli[r], CreateDataset(cli[r]))]
    /\ UNCHANGED <<readerVars, disk, hub>>

\* _get_output_path and dataset.to_parquet(output_path)
Write(r) ==
    /\ cli[r].pc = "converted"
    /\ LET c   == cli[r]
           out == GetOutputPath(c.input, c.output_file)
       IN  \E f \in WriteFaults :
              IF f = "none"
              THEN /\ disk' = { e \in disk : e.path # out }
                                \cup {[path |-> out, by |-> r, rows |-> c.dataset.rows]}
                   /\ cli' = [cli EXCEPT ![r] = [c EXCEPT !.pc = "written",
                                                          !.output_path = out]]
              ELSE /\ cli' = [cli EXCEPT ![r] =
                                 Exit([c EXCEPT !.output_path = out], f, NoError)]
                   /\ UNCHANGED disk
    /\ UNCHANGED <<readerVars, hub>>

\* `if hf_repo_id: _handle_hf_upload(...)`, then the command returns
Upload(r) ==
    /\ cli[r].pc = "written"
    /\ LET c == cli[r]
       IN  IF Falsy(c.hf_repo_id)
           THEN /\ cli' = [cli EXCEPT ![r] = [c EXCEPT !.pc = "exited", !.exit_code = 0]]
                /\ UNCHANGED hub
           ELSE IF Falsy(c.hf_token)
           THEN /\ cli' = [cli EXCEPT ![r] = Exit(c, "SystemExit", NoError)]
                /\ UNCHANGED hub
           ELSE \E f \in PushFaults :
                   IF f = "none"
                   THEN /\ hub' = Append(hub, [by |-> r, repo_id |-> c.hf_repo_id,
                                               token |-> c.hf_token,
                                               rows |-> c.dataset.rows])
                        /\ cli' = [cli EXCEPT ![r] = [c EXCEPT !.pc = "exited",
                                                               !.exit_code = 0]]
                   ELSE /\ cli' = [cli EXCEPT ![r] = Exit(c, f, NoError)]
                        /\ UNCHANGED hub
    /\ UNCHANGED <<readerVars, disk>>

NextCli ==
    \/ \E r \in DOMAIN cli : ClickParse(r)
    \/ \E r \in DOMAIN cli : Convert(r)
    \/ \E r \in DOMAIN cli : Write(r)
    \/ \E r \in DOMAIN cli : Upload(r)

\* the input files of the command line
CliInputs ==
    { <<"data/", "x", ".fasta">>, <<"data/", "x", ".fa">>,
      <<"data/", "x", ".fasta", ".gz">>, <<"data/", "x", ".csv">>,
      <<"data/", "x", ".csv", ".gz">>, <<"data/", "x", ".txt">> }

\* their contents: empty, one FASTA record, sequence without header, an
\* indented header (no record is read), a CSV with a row, a CSV header alone
CliFiles ==
    { << >>,
      << <<">", "A", ";", "x">>, <<"A">> >>,
      << <<"A">> >>,
      << <<" ", ">", "A">> >>,
      << <<"header", ",", "sequence">>, <<"s1", ",", "AAA">> >>,
      << <<"header", ",", "sequence">> >> }

OutFile == <<"out/", "res", ".parquet">>

CliRuns ==
    { NewRun(command, input, "file", lines, output_file, repo, flag, env) :
        command \in {"fasta", "csv"}, input \in CliInputs, lines \in CliFiles,
        output_file \in {<< >>, OutFile, OutDir}, repo \in {"none", "user/ds"},
        flag \in {"none", "", "hf_flag"}, env \in {"none", "hf_env"} }
    \cup
    { NewRun(command, input, k, << >>, output_file, repo, flag, env) :
        command \in {"fasta", "csv"}, input \in CliInputs, k \in {"missing", "dir"},
        output_file \in {<< >>, OutFile, OutDir}, repo \in {"none", "user/ds"},
        flag \in {"none", "", "hf_flag"}, env \in {"none", "hf_env"} }

\* the readers are not called directly
ReaderIdle ==
    /\ filepath = <<"in", ".fasta">> /\ kind = "missing" /\ content = << >>
    /\ op = "none" /\ pc = "idle" /\ pos = 0 /\ yielded = << >>
    /\ result = NoResult /\ error = NoError /\ handle = "never"
    /\ stored = "plain" /\ damage = NoDamage /\ opens = 0
    /\ params = NoParams

InitCli ==
    /\ ReaderIdle
    /\ \E run \in CliRuns : cli = <<run>>
    /\ disk = {}
    /\ hub = << >>

SpecCli == InitCli /\ [][NextCli]_vars

-----------------------------------------------------------------------------
(* Two invocations running in parallel *)

OtherOutFile == <<"out/", "other", ".parquet">>

\* invocations that convert their input: a FASTA record or a CSV row
ParRuns ==
    { NewRun("fasta", input, "file", << <<">", "A", ";", "x">>, <<"A">> >>,
             output_file, "none", "none", "none") :
        input \in { <<"data/", "x", ".fasta">>, <<"data/", "x", ".fa">>,
                    <<"data/", "x", ".fasta", ".gz">> },
        output_file \in {<< >>, OutFile, OtherOutFile} }
    \cup
    { NewRun("csv", <<"data/", "x", ".csv">>, "file",
             << <<"header", ",", "sequence">>, <<"s1", ",", "AAA">> >>,
             output_file, "none", "none", "none") :
        output_file \in {<< >>, OutFile, OtherOutFile} }

InitPar ==
    /\ ReaderIdle
    /\ \E run1 \in ParRuns, run2 \in ParRuns :
          run1.input # run2.input /\ cli = <<run1, run2>>
    /\ disk = {}
    /\ hub = << >>

SpecPar == InitPar /\ [][NextCli]_vars

-----------------------------------------------------------------------------
(* The vocabulary of the claims, stated on the input alone *)

Range(f) == { f[i] : i \in DOMAIN f }

Ended == pc \in {"done", "failed"}

\* a header line starts with '>'
HeaderIdx(lines) == { i \in 1..Len(lines) : lines[i] # << >> /\ lines[i][1] = ">" }

NonBlank(text) == \E i \in 1..Len(text) : text[i] # " "

\* the text of a header line after the '>'
HeaderText(lines, h) == SubSeq(lines[h], 2, Len(lines[h]))

\* the k-th header line of the file
KthHeader(lines, k) ==
    CHOOSE h \in HeaderIdx(lines) : Cardinality({ g \in HeaderIdx(lines) : g <= h }) = k

\* the last line before the next header or the end of the file
SegmentEnd(lines, h) ==
    IF \E g \in HeaderIdx(lines) : g > h
    THEN (CHOOSE g \in HeaderIdx(lines) : g > h /\ \A g2 \in HeaderIdx(lines) : g2 > h => g <= g2) - 1
    ELSE Len(lines)

\* the sequence lines of the header at h: the non-blank lines of its segment
SequenceLines(lines, h) ==
    SelectSeq(SubSeq(lines, h + 1, SegmentEnd(lines, h)), NonBlank)

RECURSIVE Flat(_)
Flat(ss) == IF Len(ss) = 0 THEN << >> ELSE ss[1] \o Flat(SubSeq(ss, 2, Len(ss)))

WithoutBlanks(text) == SelectSeq(text, LAMBDA c : c # " ")

\* first line a header, every header followed by at least one sequence line
WellFormed(lines) ==
    /\ 1 \in HeaderIdx(lines)
    /\ \A h \in HeaderIdx(lines) : SequenceLines(lines, h) # << >>

\* every record before the header at h is complete
CompleteBefore(lines, h) ==
    \A g \in HeaderIdx(lines) :
        g < h => SequenceLines(lines, g) # << >> /\ NonBlank(HeaderText(lines, g))

ReadingFasta == op = "read_fasta_file" /\ kind = "file"

-----------------------------------------------------------------------------
(* C1 *)

\* C1 as stated: for a well-formed file read_fasta_file raises nothing and
\* yields one record per header line, in file order, whose sequence is the
\* sequence lines of the header joined verbatim.
C1_Original ==
    (ReadingFasta /\ WellFormed(content)) =>
        /\ error = NoError
        /\ Len(yielded) <= Cardinality(HeaderIdx(content))
        /\ pc = "done" => Len(yielded) = Cardinality(HeaderIdx(content))
        /\ \A k \in 1..Len(yielded) :
              yielded[k].sequence = Flat(SequenceLines(content, KthHeader(content, k)))

\* C1 amended: for a well-formed file whose header lines all have text after
\* the '>', read_fasta_file raises nothing and yields one record per header
\* line, in file order; each record's sequence is the sequence lines of its
\* header joined in order with no separator, white space inside them removed.
C1_Concatenation ==
    (/\ ReadingFasta
     /\ WellFormed(content)
     /\ \A h \in HeaderIdx(content) : NonBlank(HeaderText(content, h))) =>
        /\ error = NoError
        /\ Len(yielded) <= Cardinality(HeaderIdx(content))
        /\ pc = "done" => Len(yielded) = Cardinality(HeaderIdx(content))
        /\ \A k \in 1..Len(yielded) :
              yielded[k].sequence =
                  WithoutBlanks(Flat(SequenceLines(content, KthHeader(content, k))))

\* two records read to the end, in file order
C1_Witness ==
    /\ ReadingFasta /\ pc = "done"
    /\ WellFormed(content)
    /\ Len(yielded) = 2
    /\ yielded[1].sequence = <<"A">>
    /\ yielded[2].sequence = <<"C">>

-----------------------------------------------------------------------------
(* C2 *)

FirstNonBlank(lines) ==
    CHOOSE i \in 1..Len(lines) : lines[i] # << >> /\ \A j \in 1..(i - 1) : lines[j] = << >>

\* C2: when the first non-blank line of the file does not start with '>',
\* read_fasta_file fails with InvalidFormatError 'Sequence data found before
\* a header line' carrying the path, and has yielded no record.
C2_SequenceBeforeHeader ==
    (/\ ReadingFasta /\ pc # "created"
     /\ \E i \in 1..Len(content) : content[i] # << >>
     /\ content[FirstNonBlank(content)][1] # ">") =>
        /\ pc = "failed"
        /\ error = InvalidFormatError("Sequence data found before a header line",
                                      filepath, << >>)
        /\ yielded = << >>

-----------------------------------------------------------------------------
(* C3 *)

-----------------------------------------------------------------------------
(* C4 *)

\* C4: when a header line is immediately followed by another header line
\* (and every record before it is complete), read_fasta_file ends with an
\* InvalidFormatError that carries the path and names that header, having
\* yielded the records before it and none for it.
C4_HeaderThenHeader ==
    \A h \in HeaderIdx(content) :
        (/\ ReadingFasta /\ Ended
         /\ 1 \in HeaderIdx(content)
         /\ h + 1 \in HeaderIdx(content)
         /\ NonBlank(HeaderText(content, h))
         /\ CompleteBefore(content, h)) =>
            /\ pc = "failed"
            /\ error.type = "InvalidFormatError"
            /\ error.filepath = filepath
            /\ Len(yielded) = Cardinality({ g \in HeaderIdx(content) : g < h })
            /\ \E a \in Range(error.args) :
                  a = HeaderText(content, h) \/ a = FirstWord(HeaderText(content, h))

-----------------------------------------------------------------------------
(* C5 *)

LastHeader(lines) ==
    CHOOSE h \in HeaderIdx(lines) : \A g \in HeaderIdx(lines) : g <= h

\* C5: when the stream ends and the last header has no sequence lines,
\* read_fasta_file fails with an InvalidFormatError for the last header whose
\* message is not the one of the mid-file case; when the last header has a
\* sequence the final record is yielded and the iteration ends normally.
C5_LastHeader ==
    (/\ ReadingFasta /\ Ended
     /\ 1 \in HeaderIdx(content)
     /\ CompleteBefore(content, LastHeader(content))
     /\ NonBlank(HeaderText(content, LastHeader(content)))) =>
        IF SequenceLines(content, LastHeader(content)) = << >>
        THEN /\ pc = "failed"
             /\ error.type = "InvalidFormatError"
             /\ error.message # "Sequence missing for header."
        ELSE /\ pc = "done"
             /\ error = NoError
             /\ Len(yielded) = Cardinality(HeaderIdx(content))

-----------------------------------------------------------------------------
(* C6 *)

\* C6: the header of every yielded record is the whole text of its header
\* line after the '>'.
C6_HeaderVerbatim ==
    ReadingFasta =>
        \A k \in 1..Len(yielded) :
            yielded[k].header = HeaderText(content, KthHeader(content, k))

-----------------------------------------------------------------------------
(* C7 *)

InsertBlank(lines, i) == SubSeq(lines, 1, i) \o << << >> >> \o SubSeq(lines, i + 1, Len(lines))

\* C7: the records read_fasta_file yields and the error it ends with are the
\* same for the file with a blank line inserted at any position.
C7_BlankLinesIgnored ==
    (ReadingFasta /\ Ended /\ content # << >>) =>
        \A i \in 0..Len(content) :
            LET r == ReadFastaAll(kind, InsertBlank(content, i), filepath)
            IN  r.records = yielded /\ r.error = error

-----------------------------------------------------------------------------
(* C8 *)

\* C8: in the four reader functions a missing path fails with
\* FileProcessingError 'Input file does not exist' and a path that is no
\* regular file with FileProcessingError 'Input path is not a file', the
\* same error value in the FASTA and the CSV reader, raised before the file
\* is opened and before anything is read.
C8_PathChecks ==
    (op # "none" /\ pc # "created" /\ kind # "file") =>
        /\ pc = "failed"
        /\ error.type = "FileProcessingError"
        /\ error.filepath = filepath
        /\ error.args = <<filepath>>
        /\ error.message = IF kind = "missing"
                           THEN "Input file does not exist: {filepath}"
                           ELSE "Input path is not a file: {filepath}"
        /\ handle = "never"
        /\ yielded = << >>
        /\ result = NoResult

C8_Witness ==
    /\ op = "read_csv_file" /\ kind = "missing" /\ pc = "failed"
    /\ error.message = "Input file does not exist: {filepath}"

-----------------------------------------------------------------------------
(* C9 *)

RequiredColumns == {"header", "sequence"}

\* the column names of the header row: the words of the first line
HeaderRowNames(lines) == Range(lines[1]) \ {","}

MissingColumns(lines) == RequiredColumns \ HeaderRowNames(lines)

\* C9: create_dataset_from_csv on a CSV whose header row lacks a required
\* column fails with an InvalidFormatError that names exactly the missing
\* columns, and returns no dataset.
C9_MissingRequiredColumns ==
    (/\ op = "create_dataset_from_csv" /\ Ended
     /\ kind = "file" /\ content # << >>
     /\ Contains(content[1], ",")
     /\ MissingColumns(content) # {}) =>
        /\ pc = "failed"
        /\ error.type = "InvalidFormatError"
        /\ Range(error.args) = MissingColumns(content)
        /\ result = NoResult

-----------------------------------------------------------------------------
(* C10 *)

\* C10: create_dataset_from_csv on a CSV with a valid header row and no data
\* row fails with InvalidFormatError and returns no dataset.
C10_NoDataRows ==
    (/\ op = "create_dataset_from_csv" /\ Ended
     /\ kind = "file" /\ content # << >>
     /\ Contains(content[1], ",")
     /\ MissingColumns(content) = {}
     /\ \A i \in 2..Len(content) : content[i] = << >>) =>
        /\ pc = "failed"
        /\ error.type = "InvalidFormatError"
        /\ result = NoResult

-----------------------------------------------------------------------------
(* C11 *)

ReadingCsv == op \in {"read_csv_file", "create_dataset_from_csv"} /\ kind = "file"

\* the number of fields of a line: one more than its delimiters
FieldCount(line) == Cardinality({ i \in 1..Len(line) : line[i] = "," }) + 1

\* the data rows of a CSV: the non-blank lines after the header row
DataRowIdx(lines) == { i \in 2..Len(lines) : lines[i] # << >> }

MismatchedRows(lines) ==
    { i \in DataRowIdx(lines) : FieldCount(lines[i]) # FieldCount(lines[1]) }

\* C11: a CSV with a data row that has more or fewer fields than the header
\* row fails with an InvalidFormatError that names the row; it is not read
\* with padded or dropped values and not reported as FileProcessingError.
C11_RowWidthMismatch ==
    (/\ ReadingCsv /\ Ended
     /\ content # << >> /\ Contains(content[1], ",")
     /\ MismatchedRows(content) # {}) =>
        /\ pc = "failed"
        /\ error.type = "InvalidFormatError"
        /\ \E a \in Range(error.args) : a \in MismatchedRows(content)
        /\ result = NoResult

-----------------------------------------------------------------------------
(* C12 *)

HasNonEmptyLine(lines) == \E i \in 1..Len(lines) : lines[i] # << >>

\* a line that holds one of the delimiters the check looks for
HasDelimiter(line) == \E d \in {",", ";", "\t"} : Contains(line, d)

\* C12: read_csv_file fails with InvalidFormatError 'File is empty' on an
\* empty file and with InvalidFormatError 'no valid delimiter found' when
\* the first non-empty line holds no delimiter; when the first non-empty
\* line holds the delimiter the check passes: no such error is raised.
C12_DelimiterCheck ==
    (op = "read_csv_file" /\ kind = "file" /\ Ended) =>
        /\ content = << >> =>
              /\ pc = "failed"
              /\ error = InvalidFormatError("File is empty: no CSV records found.",
                                            filepath, << >>)
        /\ (HasNonEmptyLine(content) /\ ~HasDelimiter(content[FirstNonBlank(content)])) =>
              /\ pc = "failed"
              /\ error = InvalidFormatError(
                     "File does not appear to be in CSV format (no valid delimiter found)",
                     filepath, << >>)
              /\ result = NoResult
        /\ (HasNonEmptyLine(content) /\ HasDelimiter(content[FirstNonBlank(content)])) =>
              error.type # "InvalidFormatError"

-----------------------------------------------------------------------------
(* C13 *)

\* the cells of a line as written: the words between the delimiters
RECURSIVE CellsOf(_)
CellsOf(line) ==
    IF \E i \in 1..Len(line) : line[i] = ","
    THEN LET d == CHOOSE i \in 1..Len(line) :
                      line[i] = "," /\ \A j \in 1..(i - 1) : line[j] # ","
         IN  <<SubSeq(line, 1, d - 1)>> \o CellsOf(SubSeq(line, d + 1, Len(line)))
    ELSE <<line>>

\* header row with the required columns, at least one data row, every data
\* row as wide as the header
WellFormedCsv(lines) ==
    /\ lines # << >>
    /\ MissingColumns(lines) = {}
    /\ DataRowIdx(lines) # {}
    /\ MismatchedRows(lines) = {}

\* the k-th data row of the file
KthDataRow(lines, k) ==
    CHOOSE i \in DataRowIdx(lines) : Cardinality({ j \in DataRowIdx(lines) : j <= i }) = k

\* C13: for a well-formed CSV create_dataset_from_csv returns a dataset with
\* one row per data row, in file order, whose columns are the header names
\* and whose values are the cells' text as written.
C13_TextUnchanged ==
    (/\ op = "create_dataset_from_csv" /\ kind = "file" /\ Ended
     /\ WellFormedCsv(content)) =>
        /\ pc = "done"
        /\ result.columns = CellsOf(content[1])
        /\ Len(result.rows) = Cardinality(DataRowIdx(content))
        /\ \A k \in 1..Len(result.rows) :
              result.rows[k] = CellsOf(content[KthDataRow(content, k)])

-----------------------------------------------------------------------------
(* C17 *)

\* the call has come to an end: returned, raised, or its generator was closed
Exited == pc \in {"done", "failed", "closed"}

\* C17: the readers hold at most one handle, opened at most once per call,
\* and the handle is released whenever the call has ended: by completion, by
\* a validation failure or by a read or decompression failure.
C17_HandleReleased ==
    /\ opens <= 1
    /\ handle = "never" <=> opens = 0
    /\ handle = "open" => (op = "read_fasta_file" /\ pc = "suspended")
    /\ Exited => handle # "open"

\* a decompression failure after a record was yielded, the handle released
C17_Witness ==
    /\ op = "read_fasta_file" /\ pc = "failed"
    /\ damage.kind = "truncated" /\ yielded # << >>
    /\ error.type = "FileProcessingError"
    /\ handle = "closed" /\ opens = 1

-----------------------------------------------------------------------------
(* C18 *)

\* a file with a '.gz' name whose bytes are not a sound gzip stream
CorruptGz ==
    /\ kind = "file" /\ IsGz(filepath)
    /\ \/ stored = "gzip" /\ damage # NoDamage
       \/ stored = "plain" /\ content # << >>

\* C18: a sound gzip file with a '.gz' name gives the records and errors of
\* the same content stored plain, and a corrupt or truncated one fails with
\* FileProcessingError, never with InvalidFormatError or an unwrapped
\* exception.
C18_GzipStream ==
    /\ (/\ kind = "file" /\ IsGz(filepath) /\ stored = "gzip" /\ damage = NoDamage
        /\ Ended) =>
          CASE op \in {"read_fasta_file", "create_dataset_from_fasta"} ->
                   /\ error = ReadFastaAll(kind, content, filepath).error
                   /\ op = "read_fasta_file" =>
                          yielded = ReadFastaAll(kind, content, filepath).records
                   /\ (op = "create_dataset_from_fasta" /\ pc = "done") =>
                          result.rows = ReadFastaAll(kind, content, filepath).records
            [] OTHER -> error = ReadCsvFile(kind, content, filepath, NoFault).error
    /\ (CorruptGz /\ Ended) =>
          /\ pc = "failed"
          /\ error.type = "FileProcessingError"

-----------------------------------------------------------------------------
(* C14 *)

\* the arguments click or the extension check turn down: a path that is not
\* an existing file, an output path that is a directory, a name without an
\* accepted extension
AcceptedName(command, path) ==
    LET name == Name(path)
        n    == Len(name)
    IN  IF command = "csv" THEN name[n] = ".csv"
        ELSE \/ name[n] \in {".fasta", ".fa", ".fna"}
             \/ n >= 2 /\ name[n] = ".gz" /\ name[n - 1] \in {".fasta", ".fa", ".fna"}

UsageError(c) ==
    c.kind # "file" \/ c.output_file = OutDir \/ ~AcceptedName(c.command, c.input)

\* the run wrote its table, and published it when a repository was given
Succeeded(r) ==
    /\ cli[r].dataset # NoResult
    /\ \E e \in disk : e.by = r /\ e.rows = cli[r].dataset.rows
    /\ ~Falsy(cli[r].hf_repo_id) => \E i \in 1..Len(hub) : hub[i].by = r

\* the conversion of the run's input raises, or gives an empty dataset
ConversionFails(d) == d.error # NoError \/ Len(d.dataset.rows) = 0

\* C14: a finished command has exit code 0 exactly when the conversion, and
\* the upload if one was requested, succeeded; 1 when a Bio2ParquetError was
\* raised or the credential for a requested upload is missing; 2 for a
\* usage error (nonexistent input, directory, wrong extension).
C14_ExitCodes ==
    \A r \in DOMAIN cli :
        cli[r].pc = "exited" =>
            /\ cli[r].exit_code = 0 <=> Succeeded(r)
            /\ UsageError(cli[r]) => cli[r].exit_code = 2
            /\ (~UsageError(cli[r]) /\ ConversionFails(CreateDataset(cli[r]))) =>
                   /\ cli[r].exit_code = 1
                   /\ cli[r].raised = "Bio2ParquetError"
            /\ cli[r].raised = "Bio2ParquetError" => cli[r].exit_code = 1
            /\ (/\ cli[r].output_path # << >>
                /\ \E e \in disk : e.by = r
                /\ ~Falsy(cli[r].hf_repo_id) /\ Falsy(cli[r].hf_token)) =>
                   cli[r].exit_code = 1

\* a run that converted, wrote and published, and left with 0
C14_Witness ==
    /\ cli # << >> /\ cli[1].pc = "exited" /\ cli[1].exit_code = 0
    /\ hub # << >> /\ disk # {}

-----------------------------------------------------------------------------
(* C15 *)

NoCredential(c) == c.hf_token \in {"none", ""}
RepositoryGiven(c) == c.hf_repo_id \notin {"none", ""}

\* push_to_hub was never called by run r
NeverPushed(r) == \A i \in 1..Len(hub) : hub[i].by # r

\* C15 as stated: with a repository given and no credential the command
\* fails with an error message and exit code 1 and never calls push_to_hub;
\* without a repository no upload is attempted.
C15_Original ==
    \A r \in DOMAIN cli :
        /\ (cli[r].pc = "exited" /\ RepositoryGiven(cli[r]) /\ NoCredential(cli[r])) =>
               cli[r].exit_code = 1 /\ cli[r].shown # "none"
        /\ (RepositoryGiven(cli[r]) /\ NoCredential(cli[r])) => NeverPushed(r)
        /\ ~RepositoryGiven(cli[r]) => NeverPushed(r)

\* C15 amended: with a repository given and no credential the command fails
\* with an error message and never calls push_to_hub; its exit code is 2 when
\* the invocation is turned down as a usage error and 1 otherwise.  Without
\* a repository no upload is attempted.
C15_MissingCredential ==
    \A r \in DOMAIN cli :
        /\ (cli[r].pc = "exited" /\ RepositoryGiven(cli[r]) /\ NoCredential(cli[r])) =>
               /\ cli[r].exit_code = IF UsageError(cli[r]) THEN 2 ELSE 1
               /\ cli[r].shown # "none"
        /\ (RepositoryGiven(cli[r]) /\ NoCredential(cli[r])) => NeverPushed(r)
        /\ ~RepositoryGiven(cli[r]) => NeverPushed(r)

\* the table was written, then the missing credential stopped the command
C15_Witness ==
    /\ cli # << >> /\ cli[1].pc = "exited"
    /\ RepositoryGiven(cli[1]) /\ cli[1].hf_token = ""
    /\ cli[1].raised = "SystemExit" /\ cli[1].exit_code = 1
    /\ disk # {} /\ hub = << >>

-----------------------------------------------------------------------------
(* C16 *)

\* the file name without its format extension and its '.gz'
BaseName(path) ==
    LET name   == Name(path)
        ungz   == IF Len(name) >= 2 /\ name[Len(name)] = ".gz"
                  THEN SubSeq(name, 1, Len(name) - 1) ELSE name
    IN  IF Len(ungz) >= 2 /\ ungz[Len(ungz)] \in {".fasta", ".fa", ".fna", ".csv"}
        THEN SubSeq(ungz, 1, Len(ungz) - 1) ELSE ungz

\* C16: the output path is the path given with -o, unchanged, and otherwise
\* <base name>.parquet in the current working directory, the base name being
\* the input's file name without directory and format extension(s).
C16_OutputPath ==
    \A r \in DOMAIN cli :
        cli[r].output_path # << >> =>
            cli[r].output_path =
                IF cli[r].output_file # << >> THEN cli[r].output_file
                ELSE <<"cwd/">> \o BaseName(cli[r].input) \o <<".parquet">>

-----------------------------------------------------------------------------
(* C20 *)

\* C20: when to_parquet or push_to_hub fails, the command reports the
\* failure with print_error and leaves with exit code 1.
C20_SinkFailureReported ==
    \A r \in DOMAIN cli :
        (cli[r].pc = "exited" /\ cli[r].raised \in {"OSError", "HfHubHTTPError", "RuntimeError"}) =>
            cli[r].shown = "print_error" /\ cli[r].exit_code = 1

-----------------------------------------------------------------------------
(* C19 *)

\* the run's table is on disk
Wrote(r) == cli[r].pc = "written" \/ (cli[r].pc = "exited" /\ cli[r].exit_code = 0)

\* the file at the run's output path is the one the run wrote
OwnsOutput(r) == \E e \in disk : e.path = cli[r].output_path /\ e.by = r

RequestedOutput(c) ==
    IF c.output_file # << >> THEN c.output_file
    ELSE <<"cwd/">> \o SubSeq(Name(c.input), 1, Len(Name(c.input)) - 1) \o <<".parquet">>

-----------------------------------------------------------------------------
(* C21 *)

\* a call of one of the two readers has raised
ReaderRaised == op \in {"read_fasta_file", "read_csv_file"} /\ pc = "failed"

\* the messages of the content and record validation of the reader
ValidationMessages ==
    IF op = "read_fasta_file"
    THEN {"File is empty: no FASTA records found.",
          "Sequence data found before a header line",
          "Sequence missing for header.",
          "Header missing for sequence."}
    ELSE {"File is empty: no CSV records found.",
          "File does not appear to be in CSV format (no valid delimiter found)"}

\* the messages of the FileProcessingError of a reader
ProcessingMessages ==
    {"Input file does not exist: {filepath}",
     "Input path is not a file: {filepath}",
     "File not found: {filepath}",
     "File is not a valid GZIP file: {filepath}",
     "Error reading file {filepath}: {e}"}

\* the exceptions of opening, decompressing and parsing
ReadExceptions ==
    {"BadGzipFile", "EOFError", "zlib.error", "UnicodeDecodeError",
     "EmptyDataError", "ParserError"}

\* the first line of the file is read and passes the content validation
FirstLineAccepted ==
    /\ kind = "file" /\ content # << >> /\ ~FaultHits(Fault, 1)
    /\ IF op = "read_fasta_file" THEN StartsWith(Strip(content[1]), ">")
       ELSE HasDelimiter(content[1])

\* C21: what a reader raises is the InvalidFormatError of a validation, as
\* the validation made it (its message, the file path, nothing wrapped
\* around it), or a FileProcessingError carrying the file path; an exception
\* of opening, decompressing or parsing is inside a FileProcessingError and
\* never leaves the reader itself.
C21_ErrorPropagation ==
    ReaderRaised =>
        /\ error.type \in {"InvalidFormatError", "FileProcessingError"}
        /\ error.filepath = filepath
        /\ error.type = "InvalidFormatError" =>
               /\ error.message \in ValidationMessages
               /\ error.args = << >>
               /\ kind = "file" /\ ~FaultHits(Fault, 1)
        /\ error.type = "FileProcessingError" =>
               /\ error.message \in ProcessingMessages
               /\ error.message = "Error reading file {filepath}: {e}" =>
                      error.args[2] \in ReadExceptions
        /\ (kind = "file" /\ FaultHits(Fault, 1)) =>
               /\ error.type = "FileProcessingError"
               /\ error.args = IF Fault.kind = "BadGzipFile" THEN <<filepath>>
                               ELSE <<filepath, Fault.kind>>
        /\ (kind = "file" /\ ~FaultHits(Fault, 1) /\ ~FirstLineAccepted) =>
               /\ error.type = "InvalidFormatError"
               /\ error.message \in ValidationMessages
        /\ (op = "read_csv_file" /\ FirstLineAccepted) =>
               error.type = "FileProcessingError"

\* an InvalidFormatError of the record validation raised through the gzip
\* stream after a record was yielded
C21_Witness ==
    /\ ReaderRaised /\ op = "read_fasta_file"
    /\ IsGz(filepath) /\ stored = "gzip"
    /\ yielded # << >>
    /\ error = InvalidFormatError("Sequence missing for header.", filepath, << >>)

-----------------------------------------------------------------------------
(* C22 *)

\* the steps of a run in their order
StepOrder ==
    { <<"start", "handler">>, <<"handler", "converted">>,
      <<"converted", "written">>, <<"written", "exited">> }

\* run r has written its Parquet file
Written(r) == \E e \in disk : e.by = r

\* C22 (states): the Parquet file is written only if the extension is
\* accepted, the whole input parsed without error and the dataset has a
\* row; a wrong extension is reported whatever the content is; the
\* credential check and the upload come after the write.
C22_StepsInOrder ==
    \A r \in DOMAIN cli :
        LET c == cli[r]
            d == CreateDataset(c)
        IN  /\ (c.pc \in {"converted", "written"} \/ Written(r)) =>
                   /\ ValidateExtension(c.command, c.input)
                   /\ d.error = NoError
                   /\ Len(d.dataset.rows) >= 1
                   /\ c.dataset = d.dataset
            /\ Written(r) =>
                   /\ c.pc \in {"written", "exited"}
                   /\ \A e \in disk : e.by = r => e.rows = c.dataset.rows
            /\ c.pc = "written" => Written(r)
            /\ (c.pc = "exited" /\ c.kind = "file" /\ c.output_file # OutDir
                 /\ ~ValidateExtension(c.command, c.input)) =>
                   /\ c.raised = "ClickException" /\ c.error = NoError
                   /\ c.dataset = NoResult
            /\ (c.pc = "exited" /\ c.raised = "Bio2ParquetError") =>
                   /\ ValidateExtension(c.command, c.input)
                   /\ IF d.error # NoError THEN c.error = d.error
                      ELSE c.error = EmptyDatasetError /\ Len(d.dataset.rows) = 0
                   /\ ~Written(r)
            /\ (c.pc = "exited" /\ c.raised \in {"SystemExit", "HfHubHTTPError"}) =>
                   Written(r)
            /\ (\E i \in 1..Len(hub) : hub[i].by = r) =>
                   /\ Written(r) /\ c.pc = "exited" /\ c.exit_code = 0
                   /\ Len(hub) = 1

\* C22 (steps): a run moves forward one step at a time or aborts; a run that
\* has ended takes no further step; the file is written by the write step
\* alone and the upload made by the upload step alone, each at most once.
C22_NoLaterStep ==
    [][\A r \in DOMAIN cli :
          /\ cli'[r].pc # cli[r].pc =>
                 \/ <<cli[r].pc, cli'[r].pc>> \in StepOrder
                 \/ cli[r].pc # "exited" /\ cli'[r].pc = "exited" /\ cli'[r].exit_code # 0
          /\ cli[r].pc = "exited" => cli'[r] = cli[r]
          /\ (Written(r)' /\ ~Written(r)) =>
                 cli[r].pc = "converted" /\ cli'[r].pc = "written"
          /\ Written(r) => (\A e \in disk' : e.by = r => e \in disk)
          /\ (hub' # hub /\ cli'[r] # cli[r]) =>
                 /\ cli[r].pc = "written" /\ cli'[r].pc = "exited"
                 /\ Len(hub') = Len(hub) + 1
                 /\ Len(hub) = 0]_vars

\* C22: the two together
C22_Order == []C22_StepsInOrder /\ C22_NoLaterStep

\* the credential check fails after the Parquet file was written
C22_Witness ==
    \E r \in DOMAIN cli :
        /\ cli[r].pc = "exited" /\ cli[r].raised = "SystemExit"
        /\ Written(r) /\ hub = << >>

-----------------------------------------------------------------------------
(* C23 *)

\* the header at h has no text after '>' or no sequence lines
Faulty(lines, h) ==
    ~NonBlank(HeaderText(lines, h)) \/ SequenceLines(lines, h) = << >>

\* the number of header lines before line h
HeadersBefore(lines, h) == Cardinality({ g \in HeaderIdx(lines) : g < h })

\* both fields of a record hold text
FieldsNonEmpty(rec) ==
    /\ rec.header # << >> /\ NonBlank(rec.header)
    /\ rec.sequence # << >> /\ NonBlank(rec.sequence)

\* C23: every record read_fasta_file has yielded, and every row of a
\* dataset built from it, has a non-empty header and a non-empty sequence;
\* a header line with no text after '>' or with no sequence lines gets no
\* record, and the read that comes to it ends with InvalidFormatError.
C23_NoEmptyField ==
    /\ ReadingFasta =>
           /\ \A k \in 1..Len(yielded) : FieldsNonEmpty(yielded[k])
           /\ \A h \in HeaderIdx(content) :
                  Faulty(content, h) =>
                     /\ Len(yielded) <= HeadersBefore(content, h)
                     /\ (Ended /\ Len(yielded) = HeadersBefore(content, h)) =>
                            pc = "failed" /\ error.type = "InvalidFormatError"
    /\ (op = "create_dataset_from_fasta" /\ pc = "done") =>
           /\ \A k \in 1..Len(result.rows) : FieldsNonEmpty(result.rows[k])
           /\ \A h \in HeaderIdx(content) : ~Faulty(content, h)

\* a header line with no text after '>' is met after a record was yielded
C23_Witness ==
    /\ ReadingFasta /\ pc = "failed" /\ yielded # << >>
    /\ error.message = "Header missing for sequence."
    /\ \E h \in HeaderIdx(content) :
           /\ HeaderText(content, h) = << >>
           /\ SequenceLines(content, h) # << >>
           /\ Len(yielded) = HeadersBefore(content, h)

-----------------------------------------------------------------------------
(* C24 *)

\* the header at h is the first one with a missing sequence, and the file
\* up to it is sound: it starts with a header and every record before h is
\* complete
FirstMissingSequence(lines, h) ==
    /\ h \in HeaderIdx(lines)
    /\ 1 \in HeaderIdx(lines)
    /\ SequenceLines(lines, h) = << >>
    /\ CompleteBefore(lines, h)

\* the file cut before line h
CutBefore(lines, h) == SubSeq(lines, 1, h - 1)

\* the header at h is the first one with a missing sequence
FirstWithoutSequence(lines, h) ==
    /\ h \in HeaderIdx(lines)
    /\ SequenceLines(lines, h) = << >>
    /\ \A g \in HeaderIdx(lines) : g < h => SequenceLines(lines, g) # << >>

\* C24 as stated: when the k-th header of a file is the first one with a
\* missing sequence, a consumer of read_fasta_file observes k-1 records and
\* then InvalidFormatError, whatever else the file holds.
C24_Original ==
    \A h \in HeaderIdx(content) :
        (ReadingFasta /\ Ended /\ FirstWithoutSequence(content, h)) =>
            /\ pc = "failed"
            /\ error.type = "InvalidFormatError"
            /\ Len(yielded) = HeadersBefore(content, h)

\* C24: when a file starts with a header line and its k-th header is the
\* first one with a missing sequence, the headers before it all having text,
\* read_fasta_file yields the k-1 records before it one by one, in
\* file order (they are the records of the file cut before that header),
\* raises nothing while it does, and the next resumption raises
\* InvalidFormatError; create_dataset_from_fasta raises the same error and
\* returns no dataset.
C24_LazyInOrder ==
    \A h \in HeaderIdx(content) :
        (kind = "file" /\ FirstMissingSequence(content, h)) =>
            /\ op = "read_fasta_file" =>
                   /\ Len(yielded) <= HeadersBefore(content, h)
                   /\ yielded = SubSeq(ReadFastaAll(kind, CutBefore(content, h), filepath).records,
                                       1, Len(yielded))
                   /\ pc \in {"suspended", "closed"} =>
                          error = NoError /\ Len(yielded) >= 1
                   /\ Ended =>
                          /\ pc = "failed"
                          /\ error = InvalidFormatError("Sequence missing for header.",
                                                        filepath, << >>)
                          /\ Len(yielded) = HeadersBefore(content, h)
            /\ op = "create_dataset_from_fasta" =>
                   /\ pc = "failed"
                   /\ error = InvalidFormatError("Sequence missing for header.",
                                                 filepath, << >>)
                   /\ result = NoResult

\* the second header is the faulty one: one record was observed, then the
\* error
C24_Witness ==
    /\ op = "read_fasta_file" /\ pc = "failed" /\ Len(yielded) = 1
    /\ error.type = "InvalidFormatError"
    /\ \E h \in HeaderIdx(content) :
           FirstMissingSequence(content, h) /\ HeadersBefore(content, h) = 1

-----------------------------------------------------------------------------
(* C25 *)

\* a call of create_dataset_from_fasta / create_dataset_from_csv on a file
\* its reader reads without error
BuildingDataset ==
    /\ kind = "file"
    /\ \/ /\ op = "create_dataset_from_fasta"
          /\ ReadFastaAll(kind, content, filepath).error = NoError
       \/ /\ op = "create_dataset_from_csv"
          /\ ReadCsvFile(kind, content, filepath, NoFault).error = NoError

\* the rows the reader produced, as the string features of the dataset
\* hold them
ReaderRows ==
    IF op = "create_dataset_from_fasta"
    THEN ReadFastaAll(kind, content, filepath).records
    ELSE LET df == ReadCsvFile(kind, content, filepath, NoFault).df
         IN  [i \in 1..Len(df.rows) |->
                 [c \in 1..Len(df.columns) |-> EncodeString(df.rows[i][c])]]

\* the records handed to the chunking
ParsedRecords ==
    IF op = "create_dataset_from_fasta"
    THEN ReadFastaAll(kind, content, filepath).records
    ELSE ReadCsvFile(kind, content, filepath, NoFault).df.rows

\* consecutive chunks of at most chunk_size records, none empty, that
\* flatten to the records; _process_chunk gives each chunk back
ChunkedIdentity(records, chunk_size) ==
    LET chunks == Chunks(records, chunk_size)
    IN  /\ \A c \in 1..Len(chunks) :
               /\ Len(chunks[c]) >= 1 /\ Len(chunks[c]) <= chunk_size
               /\ c < Len(chunks) => Len(chunks[c]) = chunk_size
               /\ ProcessChunk(chunks[c]) = chunks[c]
        /\ Concat(chunks) = records
        /\ ProcessChunks(records, chunk_size) = records

\* max_workers is None or at least 1
PositiveWorkers == params.max_workers = << >> \/ params.max_workers[1] >= 1

\* C25 as stated: for every chunk_size >= 1 and every max_workers the
\* dataset is built and has the rows of the reader, in the reader's order.
C25_Original ==
    (BuildingDataset /\ params.chunk_size >= 1) =>
        /\ pc = "done"
        /\ result.rows = ReaderRows

\* C25: for every chunk_size >= 1 and every max_workers that is None or at
\* least 1, the chunks are consecutive, hold at most chunk_size records and
\* flatten to the records, and the dataset has the rows of the reader, in
\* the reader's order, none lost or duplicated; with max_workers below 1 and
\* a record to process the call raises ValueError and builds no dataset.
C25_ChunkedIdentity ==
    (BuildingDataset /\ params.chunk_size >= 1) =>
        /\ ChunkedIdentity(ParsedRecords, params.chunk_size)
        /\ IF PositiveWorkers \/ ReaderRows = << >>
           THEN /\ pc = "done"
                /\ result.rows = ReaderRows
                /\ Len(result.rows) = Len(ParsedRecords)
           ELSE /\ pc = "failed"
                /\ error.type = "ValueError"
                /\ result = NoResult

\* three rows in chunks of two: a full chunk and the remainder
C25_Witness ==
    /\ op = "create_dataset_from_csv" /\ pc = "done"
    /\ params = [chunk_size |-> 2, max_workers |-> <<2>>]
    /\ Len(result.rows) = 3
    /\ Len(Chunks(ParsedRecords, 2)) = 2

====
